---- MODULE Spec2Model ----
(***************************************************************************)
(* The meeting orchestrator of the MeetAssist server                       *)
(* (server/src/meeting/MeetingManager.ts) as a state machine.  Node runs   *)
(* one handler at a time, so every action is the code a handler runs       *)
(* between two awaits; an awaited collaborator call (transcribe,           *)
(* generateSummary, saveMeeting, sendMeetingMinutes) is a record that a    *)
(* later action completes, in any order.                                   *)
(***************************************************************************)
EXTENDS Integers, Sequences, FiniteSets, Bags, TLC

VARIABLES
    activeMeetings,   \* Map<string, ActiveMeeting>: entries <<key, object>> in insertion order
    clientMeetings,   \* Map<string, string>: clientId -> meetingId, NoMeeting when absent
    heap,             \* the ActiveMeeting objects ever constructed, by reference
    timers,           \* the setInterval handles that are still set
    calls,            \* the transcription.transcribe calls, oldest first
    sumCalls,         \* the summary.generateSummary calls, oldest first
    endTasks,         \* the endMeeting invocations, oldest first
    emitted,          \* the 'message' events emitted by sendToMeetingClients
    now,              \* Date.now() as the latest interval callback read it
    conn,             \* the WebSocket connections: "open" or "closed"
    nchunks,          \* the audio_chunk messages received so far
    stopped,          \* whether stop() has run cleanup()
    lim,              \* the scope of the run: how many inputs of each kind may arrive,
                      \* and the configuration the server was constructed with
    sent,             \* the messages sendMessage wrote to each connection, oldest first
    endRequests,      \* the meeting ids for which a meeting_end message has arrived
    videoSaves,       \* the storage.saveVideoChunk calls, oldest first
    wss,              \* the WebSocketServer: its 'connection' listeners, its sockets and
                      \* the handlers of the event being emitted that have yet to run
    ext               \* the extension's BackgroundService

vars == <<activeMeetings, clientMeetings, heap, timers, calls, sumCalls,
          endTasks, emitted, now, conn, nchunks, stopped, lim, sent, endRequests,
          videoSaves, wss, ext>>

-----------------------------------------------------------------------------
(* Bounds of the model, one scope per specification *)

\* Spec: two meeting ids, two connections
MaxObjs == 2
MaxChunks == 1
MaxTime == 1

\* SpecAudio: one meeting, a longer stream of audio chunks, results of AudioSegs chunks
AudioMaxChunks == 2
AudioSegs == 2

\* SpecSummary: one meeting, several interval callbacks
SumMaxChunks == 2
SumMaxTime == 2

\* SpecProtocol: one meeting id, malformed and unhandled messages, both
\* summary providers
ProtoMaxObjs == 2
ProtoMaxChunks == 1
ProtoMaxTime == 1
MaxErrors == 1
ReconnectMaxMessages == 1
ForwardMaxTabs == 2
ForwardMaxMessages == 1
ConnMaxObjs == 2
ConnMaxChunks == 2
OpenAIMaxChunks == 1
OpenAIMaxTime == 1
MediaMaxObjs == 1
MediaMaxChunks == 2
EmailMaxObjs == 2

(* Program constants *)

FlushThresholdMs == 10000
InitialSummaryTime == 0
MsPerSecond == 1000

Meetings == {"m1", "m2"}
Clients == {"c1", "c2"}
NoMeeting == "none"

\* audio_chunk payloads: the chunk bytes and the timestamp field
Chunks == { [data |-> <<1>>, timestamp |-> 500],
            [data |-> <<2, 3>>, timestamp |-> 10000] }

\* meeting_start payloads: the meeting id and the participant roster
Infos ==
    { [id |-> "m1", participants |->
          <<[id |-> "speaker_1", name |-> "Ann", email |-> "ann@example.org"]>>],
      [id |-> "m2", participants |->
          <<[id |-> "speaker_2", name |-> "Bob", email |-> ""]>>] }

Scope ==
    [ meetings |-> Meetings, clients |-> Clients, objs |-> MaxObjs,
      chunks |-> MaxChunks, time |-> MaxTime, segs |-> 1, segStarts |-> {0},
      payloads |-> Chunks, provider |-> "local", errors |-> 0, smtp |-> "down" ]

ScopeAudio ==
    [ meetings |-> {"m1"}, clients |-> {"c1"}, objs |-> 1,
      chunks |-> AudioMaxChunks, time |-> 1, segs |-> AudioSegs, segStarts |-> {0},
      payloads |-> Chunks, provider |-> "local", errors |-> 0, smtp |-> "down" ]

\* every chunk of this scope reaches the flush threshold on its own
ScopeSummary ==
    [ meetings |-> {"m1"}, clients |-> {"c1"}, objs |-> 1,
      chunks |-> SumMaxChunks, time |-> SumMaxTime, segs |-> 1, segStarts |-> {0, 2},
      payloads |-> {k \in Chunks : k.timestamp >= FlushThresholdMs},
      provider |-> "local", errors |-> 0, smtp |-> "down" ]

\* SUMMARY_PROVIDER is read when the summary service is constructed
Providers == {"local", "openai"}

ScopeProtocol(provider) ==
    [ meetings |-> {"m1"}, clients |-> {"c1"}, objs |-> ProtoMaxObjs,
      chunks |-> ProtoMaxChunks, time |-> ProtoMaxTime, segs |-> 1, segStarts |-> {0},
      payloads |-> {k \in Chunks : k.timestamp >= FlushThresholdMs},
      provider |-> provider, errors |-> MaxErrors, smtp |-> "down" ]

\* SUMMARY_PROVIDER=openai, and every chunk reaches the flush threshold
ScopeOpenAI ==
    [ meetings |-> {"m1"}, clients |-> {"c1"}, objs |-> 1,
      chunks |-> OpenAIMaxChunks, time |-> OpenAIMaxTime, segs |-> 1, segStarts |-> {0, 2},
      payloads |-> {k \in Chunks : k.timestamp >= FlushThresholdMs},
      provider |-> "openai", errors |-> 0, smtp |-> "down" ]

\* one socket; the client ids are assigned when it connects
ScopeConnection ==
    [ meetings |-> {"m1"}, clients |-> {"c1", "c2"}, objs |-> ConnMaxObjs,
      chunks |-> ConnMaxChunks, time |-> 1, segs |-> 1, segStarts |-> {0},
      payloads |-> {k \in Chunks : k.timestamp >= FlushThresholdMs},
      provider |-> "local", errors |-> 0, smtp |-> "down" ]

\* audio and video chunks, no summary tick
ScopeMedia ==
    [ meetings |-> {"m1"}, clients |-> {"c1"}, objs |-> MediaMaxObjs,
      chunks |-> MediaMaxChunks, time |-> 0, segs |-> 1, segStarts |-> {0},
      payloads |-> Chunks, provider |-> "local", errors |-> 0, smtp |-> "down" ]

\* the outcome of EmailService.initialize: transporter.verify() resolved, or
\* creating or verifying the transporter threw
Smtp == {"ok", "down"}

\* no audio is sent in this scope
ScopeEmail(smtp) ==
    [ meetings |-> {"m1", "m2"}, clients |-> {"c1", "c2"}, objs |-> EmailMaxObjs,
      chunks |-> 0, time |-> 0, segs |-> 1, segStarts |-> {0},
      payloads |-> {k \in Chunks : k.timestamp >= FlushThresholdMs},
      provider |-> "local", errors |-> 0, smtp |-> smtp ]

-----------------------------------------------------------------------------
(* Map helpers: a JavaScript Map keeps its keys in insertion order *)

MapHas(map, k) == \E i \in 1..Len(map) : map[i][1] = k

MapGet(map, k) == (CHOOSE i \in 1..Len(map) : map[i][1] = k)

MapValue(map, k) == map[MapGet(map, k)][2]

MapSet(map, k, v) ==
    IF MapHas(map, k)
    THEN [map EXCEPT ![MapGet(map, k)] = <<k, v>>]
    ELSE Append(map, <<k, v>>)

MapDelete(map, k) == SelectSeq(map, LAMBDA e : e[1] # k)

MapKeys(map) == [i \in 1..Len(map) |-> map[i][1]]

-----------------------------------------------------------------------------
(* Pure helpers of MeetingManager *)

RECURSIVE calculateAudioDuration(_)
calculateAudioDuration(buffers) ==
    IF buffers = <<>> THEN 0
    ELSE calculateAudioDuration(SubSeq(buffers, 1, Len(buffers) - 1))
         + buffers[Len(buffers)].timestamp

RECURSIVE TotalLength(_)
TotalLength(buffers) ==
    IF buffers = <<>> THEN 0
    ELSE TotalLength(SubSeq(buffers, 1, Len(buffers) - 1))
         + Len(buffers[Len(buffers)].data)

\* result.set(new Uint8Array(buffer.data), offset)
SetAt(result, data, offset) ==
    [i \in 1..Len(result) |->
        IF offset < i /\ i <= offset + Len(data) THEN data[i - offset] ELSE result[i]]

RECURSIVE MergeLoop(_, _, _, _)
MergeLoop(buffers, k, offset, result) ==
    IF k > Len(buffers) THEN result
    ELSE MergeLoop(buffers, k + 1, offset + Len(buffers[k].data),
                   SetAt(result, buffers[k].data, offset))

mergeAudioBuffers(buffers) ==
    MergeLoop(buffers, 1, 0, [i \in 1..TotalLength(buffers) |-> 0])

SomeEmail(participants) ==
    \E i \in 1..Len(participants) : participants[i].email # ""

FindName(participants, speakerId) ==
    IF \E i \in 1..Len(participants) : participants[i].id = speakerId
    THEN participants[CHOOSE i \in 1..Len(participants) :
                        /\ participants[i].id = speakerId
                        /\ \A j \in 1..(i - 1) : participants[j].id # speakerId].name
    ELSE ""

mapSpeakers(chunks, participants) ==
    [i \in 1..Len(chunks) |->
        [chunks[i] EXCEPT !.speakerName =
            IF FindName(participants, chunks[i].speakerId) # ""
            THEN FindName(participants, chunks[i].speakerId)
            ELSE "Unknown Speaker"]]

\* what the transcription adapter returns for call number c: n chunks from start time s
TranscriptChunks(c, s, n) ==
    [i \in 1..n |->
        [id |-> <<c, i>>, startTime |-> s + (i - 1), endTime |-> s + i,
         speakerId |-> IF i = 1 THEN "speaker_1" ELSE "speaker_2",
         speakerName |-> IF i = 1 THEN "Speaker 1" ELSE "Speaker 2"]]

-----------------------------------------------------------------------------
(* sendToMeetingClients: emits only while the meeting id is registered *)

sendToMeetingClients(map, em, meetingId, type, payload) ==
    IF MapHas(map, meetingId)
    THEN Append(em, [meetingId |-> meetingId, type |-> type, payload |-> payload])
    ELSE em

RECURSIVE SendAll(_, _, _, _, _)
SendAll(map, em, meetingId, type, payloads) ==
    IF payloads = <<>> THEN em
    ELSE SendAll(map, sendToMeetingClients(map, em, meetingId, type, Head(payloads)),
                 meetingId, type, Tail(payloads))



-----------------------------------------------------------------------------
(* sendMessage and sendError of the server, and the message every          *)
(* connection is sent when it is accepted                                  *)

ConnectionConfirmation ==
    [type |-> "status", meetingId |-> NoMeeting, payload |-> "connected"]

ErrorMessage(code) == [type |-> "error", meetingId |-> NoMeeting, payload |-> code]

sendMessage(out, clientId, message) ==
    IF conn[clientId] = "open"
    THEN [out EXCEPT ![clientId] = Append(@, message)]
    ELSE out

sendError(out, clientId, code) == sendMessage(out, clientId, ErrorMessage(code))

\* the sockets that may connect, and the client ids uuidv4() returns, in
\* the order it returns them
Sockets == {"w1"}

ClientIds == <<"c1", "c2">>

\* new WebSocketServer: no 'connection' listener yet, not listening
NewWebSocketServer ==
    [ listeners |-> 0,
      listening |-> FALSE,
      ids |-> [w \in Sockets |-> <<>>],
      state |-> [w \in Sockets |-> "new"],
      received |-> [type \in {"meeting_start", "audio_chunk", "close"} |-> 0],
      pending |-> <<>> ]

\* setupWebSocket: this.wss.on('connection', ...) adds a listener
setupWebSocket(server) == [server EXCEPT !.listeners = @ + 1]

\* the WebSocketServer after the constructor of MeetAssistServer
ServerConstructed == setupWebSocket(NewWebSocketServer)

\* BackgroundService's fields
maxReconnectAttempts == 5
reconnectDelay == 1000

\* sendMessageToTabs retries while retryCount is below this
MaxRetries == 3

\* the BackgroundService after its constructor: init() called
\* connectToBackend.  tabs are the Meet tabs chrome.tabs.query returns,
\* receivers those whose content script is listening, and toArrive the
\* messages the backend has yet to send.  pending is the bag of callbacks
\* chrome has yet to run; sinceOpen, attempts and delivered are history
BackgroundService(tabs, receivers, toArrive) ==
    [ ws |-> "connecting",
      reconnectAttempts |-> 0,
      reconnectTimers |-> <<>>,
      sinceOpen |-> 0,
      tabs |-> tabs,
      receivers |-> receivers,
      toArrive |-> toArrive,
      arrived |-> 0,
      pending |-> EmptyBag,
      attempts |-> [m \in 1..toArrive |-> [t \in tabs |-> 0]],
      delivered |-> [m \in 1..toArrive |-> [t \in tabs |-> 0]] ]

BackgroundConstructed == BackgroundService({}, {}, 0)

-----------------------------------------------------------------------------
ServerInit(scope) ==
    /\ activeMeetings = <<>>
    /\ clientMeetings = [c \in Clients |-> NoMeeting]
    /\ heap = <<>>
    /\ timers = {}
    /\ calls = <<>>
    /\ sumCalls = <<>>
    /\ endTasks = <<>>
    /\ emitted = <<>>
    /\ now = 0
    /\ conn = [c \in Clients |-> "open"]
    /\ nchunks = 0
    /\ stopped = FALSE
    /\ lim = scope
    /\ sent = [c \in Clients |-> <<ConnectionConfirmation>>]
    /\ endRequests = {}
    /\ videoSaves = <<>>
    /\ wss = ServerConstructed

InitWith(scope) == ServerInit(scope) /\ ext = BackgroundConstructed

Init == InitWith(Scope)

InitAudio == InitWith(ScopeAudio)

InitSummary == InitWith(ScopeSummary)

InitProtocol == \E provider \in Providers : InitWith(ScopeProtocol(provider))

InitMedia == InitWith(ScopeMedia)

\* the extension with one Meet tab, whose content script may be listening
InitReconnect ==
    /\ ServerInit(Scope)
    /\ \E receivers \in SUBSET {1} :
           ext = BackgroundService({1}, receivers, ReconnectMaxMessages)

\* the extension with several Meet tabs
InitForward ==
    /\ ServerInit(Scope)
    /\ \E receivers \in SUBSET (1..ForwardMaxTabs) :
           ext = BackgroundService(1..ForwardMaxTabs, receivers, ForwardMaxMessages)

\* the server after its constructor, before start() and before any connection
InitConnection ==
    /\ activeMeetings = <<>>
    /\ clientMeetings = [c \in Clients |-> NoMeeting]
    /\ heap = <<>>
    /\ timers = {}
    /\ calls = <<>>
    /\ sumCalls = <<>>
    /\ endTasks = <<>>
    /\ emitted = <<>>
    /\ now = 0
    /\ conn = [c \in Clients |-> "unassigned"]
    /\ nchunks = 0
    /\ stopped = FALSE
    /\ lim = ScopeConnection
    /\ sent = [c \in Clients |-> <<>>]
    /\ endRequests = {}
    /\ videoSaves = <<>>
    /\ wss = ServerConstructed
    /\ ext = BackgroundConstructed

InitOpenAI == InitWith(ScopeOpenAI)

\* the server after start(), whose email service did or did not initialize
InitEmail == \E smtp \in Smtp : InitWith(ScopeEmail(smtp))

-----------------------------------------------------------------------------
(* startMeeting, with startSummaryPipeline: the interval handle of the     *)
(* object heap[o] is o                                                     *)

NewMeeting(meetingId, participants, clientId, handle) ==
    [ id |-> meetingId,
      participants |-> participants,
      clients |-> {clientId},
      audioBuffers |-> <<>>,
      videoChunks |-> <<>>,
      transcript |-> <<>>,
      summaries |-> <<>>,
      lastSummaryTime |-> InitialSummaryTime,
      summaryInterval |-> handle ]

Register(map, meetingId, o) == MapSet(map, meetingId, o)

startMeeting(meetingId, participants, clientId) ==
    /\ conn[clientId] = "open"
    /\ Len(heap) < lim.objs
    /\ LET o == Len(heap) + 1 IN
        /\ heap' = Append(heap, NewMeeting(meetingId, participants, clientId, o))
        /\ activeMeetings' = Register(activeMeetings, meetingId, o)
        /\ clientMeetings' = [clientMeetings EXCEPT ![clientId] = meetingId]
        /\ timers' = timers \cup {o}
        /\ emitted' = sendToMeetingClients(activeMeetings', emitted, meetingId,
                                           "status", "recording")
    /\ UNCHANGED <<calls, sumCalls, endTasks, now, conn, nchunks, stopped, lim,
                   sent, endRequests>>

-----------------------------------------------------------------------------
(* processAudioChunk up to the await of transcription.transcribe *)

\* teardown of the session object o has begun
TeardownBegun(o) == \E k \in 1..Len(endTasks) : endTasks[k].obj = o

\* window and early are history: the fragments merged, and whether the call was
\* made before the teardown of its session began
NewCall(o, meetingId, buffers) ==
    [ obj |-> o, meetingId |-> meetingId,
      mergedAudio |-> mergeAudioBuffers(buffers),
      window |-> [i \in 1..Len(buffers) |-> buffers[i].seq],
      early |-> ~TeardownBegun(o),
      status |-> "inflight" ]

ShouldFlushStrict(buffers) == calculateAudioDuration(buffers) > FlushThresholdMs

ShouldFlush(buffers) == calculateAudioDuration(buffers) >= FlushThresholdMs

processAudioChunk(meetingId, data, timestamp) ==
    /\ nchunks < lim.chunks
    /\ nchunks' = nchunks + 1
    /\ IF ~MapHas(activeMeetings, meetingId)
       THEN UNCHANGED <<heap, calls>>
       ELSE LET o == MapValue(activeMeetings, meetingId)
                buffers == Append(heap[o].audioBuffers,
                                  [data |-> data, timestamp |-> timestamp,
                                   seq |-> nchunks + 1])
            IN /\ heap' = [heap EXCEPT ![o].audioBuffers = buffers]
               /\ calls' = IF ShouldFlush(buffers)
                           THEN Append(calls, NewCall(o, meetingId, buffers))
                           ELSE calls
    /\ UNCHANGED <<activeMeetings, clientMeetings, timers, sumCalls,
                   endTasks, emitted, now, conn, stopped, lim,
                   sent, endRequests>>

(* processVideoChunk up to the await of storage.saveVideoChunk, which     *)
(* catches its own failures and changes no state of the server            *)

PushVideoChunkAnywhere(h, map, meetingId, chunk) ==
    [o \in DOMAIN h |-> [h[o] EXCEPT !.videoChunks = Append(@, chunk)]]

PushVideoChunk(h, map, meetingId, chunk) ==
    IF ~MapHas(map, meetingId)
    THEN h
    ELSE [h EXCEPT ![MapValue(map, meetingId)].videoChunks = Append(@, chunk)]

SaveVideoChunkCalls(map, meetingId, timestamp) ==
    IF ~MapHas(map, meetingId)
    THEN <<>>
    ELSE <<[meetingId |-> meetingId, timestamp |-> timestamp]>>

processVideoChunk(meetingId, data, timestamp) ==
    /\ nchunks < lim.chunks
    /\ nchunks' = nchunks + 1
    /\ heap' = PushVideoChunk(heap, activeMeetings, meetingId,
                              [data |-> data, timestamp |-> timestamp])
    /\ videoSaves' = videoSaves \o SaveVideoChunkCalls(activeMeetings, meetingId, timestamp)
    /\ UNCHANGED <<activeMeetings, clientMeetings, timers, calls, sumCalls,
                   endTasks, emitted, now, conn, stopped, lim,
                   sent, endRequests, wss, ext>>

(* processAudioForTranscription after the await: the call resolved *)

AfterTranscribe(meeting, mappedChunks) ==
    [meeting EXCEPT !.transcript = meeting.transcript \o mappedChunks,
                    !.audioBuffers = <<>>]

transcribeResolved(c, s, n) ==
    /\ c \in 1..Len(calls)
    /\ calls[c].status = "inflight"
    /\ LET o == calls[c].obj
           mappedChunks == mapSpeakers(TranscriptChunks(c, s, n), heap[o].participants)
       IN /\ heap' = [heap EXCEPT ![o] = AfterTranscribe(heap[o], mappedChunks)]
          /\ emitted' = SendAll(activeMeetings, emitted, calls[c].meetingId,
                                "transcript", mappedChunks)
    /\ calls' = [calls EXCEPT ![c].status = "ok"]
    /\ UNCHANGED <<activeMeetings, clientMeetings, timers, sumCalls,
                   endTasks, now, conn, nchunks, stopped, lim,
                   sent, endRequests>>

(* processAudioForTranscription's catch: the call rejected *)

AfterTranscribeFailed(meeting) == meeting

transcribeRejected(c) ==
    /\ c \in 1..Len(calls)
    /\ calls[c].status = "inflight"
    /\ calls' = [calls EXCEPT ![c].status = "failed"]
    /\ heap' = [heap EXCEPT ![calls[c].obj] = AfterTranscribeFailed(heap[calls[c].obj])]
    /\ UNCHANGED <<activeMeetings, clientMeetings, timers, sumCalls,
                   endTasks, emitted, now, conn, nchunks, stopped, lim,
                   sent, endRequests>>

-----------------------------------------------------------------------------
(* The setInterval callback of startSummaryPipeline and generateSummary up *)
(* to the await of summary.generateSummary                                 *)

RecentTranscriptStrict(meeting) ==
    SelectSeq(meeting.transcript, LAMBDA chunk : chunk.startTime > meeting.lastSummaryTime)

RecentTranscript(meeting) ==
    SelectSeq(meeting.transcript, LAMBDA chunk : chunk.startTime >= meeting.lastSummaryTime)

WindowEmptyNever(recentTranscript) == FALSE

WindowEmpty(recentTranscript) == Len(recentTranscript) = 0

\* where SummaryService.generateSummary sends the chunks' text: with provider
\* 'openai' into the prompt of openaiClient.chat.completions.create
LocalModel == "local"

OpenAIBaseURL == "https://api.openai.com/v1"

Endpoint(provider) == IF provider = "openai" THEN OpenAIBaseURL ELSE LocalModel

NewSumCall(o, meetingId, meeting, currentTime) ==
    [ obj |-> o, meetingId |-> meetingId,
      chunks |-> RecentTranscript(meeting),
      endpoint |-> Endpoint(lim.provider),
      generator |-> lim.provider,
      startTime |-> meeting.lastSummaryTime,
      endTime |-> currentTime,
      early |-> ~TeardownBegun(o),
      status |-> "inflight" ]

\* the callback of interval h runs at time t; two callbacks never read the same time
summaryTick(h, t) ==
    /\ h \in timers
    /\ t > now
    /\ now' = t
    /\ LET meetingId == heap[h].id IN
       IF ~MapHas(activeMeetings, meetingId)
       THEN /\ timers' = timers \ {h}
            /\ UNCHANGED sumCalls
       ELSE LET o == MapValue(activeMeetings, meetingId) IN
            /\ timers' = timers
            /\ sumCalls' = IF WindowEmpty(RecentTranscript(heap[o]))
                           THEN sumCalls
                           ELSE Append(sumCalls, NewSumCall(o, meetingId, heap[o], t))
    /\ UNCHANGED <<activeMeetings, clientMeetings, heap, calls, endTasks, emitted,
                   conn, nchunks, stopped, lim,
                   sent, endRequests>>

\* the Summary the summary service builds (SummaryService.generateLocalSummary)
Summary(j, generator, chunks, startTime, endTime) ==
    [ id |-> j,
      generator |-> generator,
      startTime |-> startTime \div MsPerSecond,
      endTime |-> endTime \div MsPerSecond,
      chunks |-> [i \in 1..Len(chunks) |-> chunks[i].id] ]

AfterSummary(meeting, summary, currentTime) ==
    [meeting EXCEPT !.summaries = Append(meeting.summaries, summary),
                    !.lastSummaryTime = currentTime]

summaryResolved(j) ==
    /\ j \in 1..Len(sumCalls)
    /\ sumCalls[j].status = "inflight"
    /\ LET o == sumCalls[j].obj
           summary == Summary(j, sumCalls[j].generator, sumCalls[j].chunks,
                              sumCalls[j].startTime,
                              sumCalls[j].endTime)
       IN /\ heap' = [heap EXCEPT ![o] = AfterSummary(heap[o], summary, sumCalls[j].endTime)]
          /\ emitted' = sendToMeetingClients(activeMeetings, emitted,
                                             sumCalls[j].meetingId, "summary", summary)
    /\ sumCalls' = [sumCalls EXCEPT ![j].status = "ok"]
    /\ UNCHANGED <<activeMeetings, clientMeetings, timers, calls, endTasks,
                   now, conn, nchunks, stopped, lim,
                   sent, endRequests>>

(* generateOpenAISummary's catch: the request failed, or its response had  *)
(* no content or did not parse; generateLocalSummary takes the same chunks *)
(* and times                                                               *)

\* the call went to OpenAI and is now at the local generator
FellBack(call) == call.endpoint = OpenAIBaseURL /\ call.generator = "local"

AfterOpenAIErrorRethrows(call) == [call EXCEPT !.status = "failed"]

AfterOpenAIError(call) == [call EXCEPT !.generator = "local"]

openaiFailed(j) ==
    /\ j \in 1..Len(sumCalls)
    /\ sumCalls[j].status = "inflight"
    /\ sumCalls[j].generator = "openai"
    /\ sumCalls' = [sumCalls EXCEPT ![j] = AfterOpenAIError(sumCalls[j])]
    /\ UNCHANGED <<activeMeetings, clientMeetings, heap, timers, calls,
                   endTasks, emitted, now, conn, nchunks, stopped, lim,
                   sent, endRequests>>

(* generateSummary's catch: the call rejected; the catch only logs.  A     *)
(* call of the openai provider does not reject: generateOpenAISummary      *)
(* catches every error of its request and generateLocalSummary has no      *)
(* failing step                                                            *)

AfterSummaryFailedAdvances(meeting, currentTime) ==
    [meeting EXCEPT !.lastSummaryTime = currentTime]

AfterSummaryFailed(meeting, currentTime) == meeting

summaryRejected(j) ==
    /\ j \in 1..Len(sumCalls)
    /\ sumCalls[j].status = "inflight"
    /\ sumCalls[j].endpoint = LocalModel
    /\ sumCalls' = [sumCalls EXCEPT ![j].status = "failed"]
    /\ heap' = [heap EXCEPT ![sumCalls[j].obj] =
                    AfterSummaryFailed(heap[sumCalls[j].obj], sumCalls[j].endTime)]
    /\ UNCHANGED <<activeMeetings, clientMeetings, timers, calls,
                   endTasks, emitted, now, conn, nchunks, stopped, lim,
                   sent, endRequests>>

-----------------------------------------------------------------------------
(* endMeeting up to the await of storage.saveMeeting: the interval is      *)
(* cleared and saveMeeting is called with the minutes, which hold the      *)
(* meeting's transcript and summaries arrays by reference                  *)

\* the contents of the arrays a MeetingMinutes object refers to
Minutes(meeting) == [transcript |-> meeting.transcript, summaries |-> meeting.summaries]

\* an endMeeting invocation holds its minutes, and with them the arrays of
\* heap[o], until it ends
EndTask(o, meetingId, trigger) ==
    [ obj |-> o, meetingId |-> meetingId, pc |-> "save", trigger |-> trigger,
      mail |-> "none" ]

\* the endMeeting invocations the call endMeeting(meetingId) adds
EndMeetingCalls(map, meetingId, trigger) ==
    IF MapHas(map, meetingId)
    THEN <<EndTask(MapValue(map, meetingId), meetingId, trigger)>>
    ELSE <<>>

\* the interval handles the call endMeeting(meetingId) clears
EndMeetingClears(map, meetingId) ==
    IF MapHas(map, meetingId)
    THEN {heap[MapValue(map, meetingId)].summaryInterval}
    ELSE {}

(* endMeeting's cleanup, after the last await *)

Unregister(map, meetingId) == MapDelete(map, meetingId)

RemoveAllClientMappings(cm, meetingId) == [c \in DOMAIN cm |-> NoMeeting]

RemoveClientMappings(cm, meetingId) ==
    [c \in DOMAIN cm |-> IF cm[c] = meetingId THEN NoMeeting ELSE cm[c]]

EndMeetingCleanup(k, mail) ==
    /\ activeMeetings' = Unregister(activeMeetings, endTasks[k].meetingId)
    /\ clientMeetings' = RemoveClientMappings(clientMeetings, endTasks[k].meetingId)
    /\ endTasks' = [endTasks EXCEPT ![k].pc = "done", ![k].mail = mail]

(* EmailService *)

\* isInitialized after EmailService.initialize, which catches its failure
isInitialized(smtp) == smtp = "ok"

Recipients(participants) ==
    SelectSeq(participants, LAMBDA p : p.email # "")

\* sendMeetingMinutes up to its await: whether transporter.sendMail is called
sendMeetingMinutesAlways(initialized, participants) == "inflight"

sendMeetingMinutes(initialized, participants) ==
    IF ~initialized THEN "none"
    ELSE IF Len(Recipients(participants)) = 0 THEN "none"
    ELSE "inflight"

\* sendMeetingMinutes after its await: sendMail resolved, or it rejected and
\* the catch logged
AfterSendMail(mail, ok) ==
    IF mail = "inflight" THEN (IF ok THEN "sent" ELSE "failed") ELSE mail

\* storage.saveMeeting resolved
saveResolved(k) ==
    /\ k \in 1..Len(endTasks)
    /\ endTasks[k].pc = "save"
    /\ IF SomeEmail(heap[endTasks[k].obj].participants)
       THEN /\ endTasks' = [endTasks EXCEPT ![k].pc = "email",
                                             ![k].mail = sendMeetingMinutes(
                                                 isInitialized(lim.smtp),
                                                 heap[endTasks[k].obj].participants)]
            /\ UNCHANGED <<activeMeetings, clientMeetings>>
       ELSE EndMeetingCleanup(k, endTasks[k].mail)
    /\ UNCHANGED <<heap, timers, calls, sumCalls, emitted, now, conn,
                   nchunks, stopped, lim,
                   sent, endRequests>>

\* storage.saveMeeting rejected (StorageService.saveMeeting rethrows): the
\* await throws and endMeeting ends there
AfterSaveRejected(k) ==
    /\ endTasks' = [endTasks EXCEPT ![k].pc = "failed"]
    /\ UNCHANGED <<activeMeetings, clientMeetings>>

saveRejected(k) ==
    /\ k \in 1..Len(endTasks)
    /\ endTasks[k].pc = "save"
    /\ AfterSaveRejected(k)
    /\ UNCHANGED <<heap, timers, calls, sumCalls, emitted, now, conn,
                   nchunks, stopped, lim,
                   sent, endRequests>>

\* email.sendMeetingMinutes settled: EmailService catches its own failures
emailSettled(k) ==
    /\ k \in 1..Len(endTasks)
    /\ endTasks[k].pc = "email"
    /\ EndMeetingCleanup(k, AfterSendMail(endTasks[k].mail, TRUE))
    /\ UNCHANGED <<heap, timers, calls, sumCalls, emitted, now, conn,
                   nchunks, stopped, lim,
                   sent, endRequests>>

\* transporter.sendMail rejected: sendMeetingMinutes catches and logs, and
\* endMeeting goes on as after a delivery
emailRejected(k) ==
    /\ k \in 1..Len(endTasks)
    /\ endTasks[k].pc = "email"
    /\ endTasks[k].mail = "inflight"
    /\ EndMeetingCleanup(k, AfterSendMail(endTasks[k].mail, FALSE))
    /\ UNCHANGED <<heap, timers, calls, sumCalls, emitted, now, conn,
                   nchunks, stopped, lim,
                   sent, endRequests>>

-----------------------------------------------------------------------------
(* handleClientDisconnect, called by the connection's 'close' event *)

LastClientLeft(meeting) == Cardinality(meeting.clients) = 0

handleClientDisconnectClearsAll(clientId) ==
    /\ conn[clientId] = "open"
    /\ conn' = [conn EXCEPT ![clientId] = "closed"]
    /\ timers' = {}
    /\ UNCHANGED <<activeMeetings, clientMeetings, heap, calls, sumCalls, endTasks,
                   emitted, now, nchunks, stopped, lim, sent, endRequests>>

handleClientDisconnect(clientId) ==
    /\ conn[clientId] = "open"
    /\ conn' = [conn EXCEPT ![clientId] = "closed"]
    /\ LET meetingId == clientMeetings[clientId] IN
       IF meetingId = NoMeeting \/ ~MapHas(activeMeetings, meetingId)
       THEN UNCHANGED <<heap, clientMeetings, timers, endTasks>>
       ELSE LET o == MapValue(activeMeetings, meetingId)
                meeting == [heap[o] EXCEPT !.clients = @ \ {clientId}]
            IN /\ heap' = [heap EXCEPT ![o] = meeting]
               /\ clientMeetings' = [clientMeetings EXCEPT ![clientId] = NoMeeting]
               /\ IF LastClientLeft(meeting)
                  THEN /\ timers' = timers \ EndMeetingClears(activeMeetings, meetingId)
                       /\ endTasks' = endTasks \o
                              EndMeetingCalls(activeMeetings, meetingId, "disconnect")
                  ELSE UNCHANGED <<timers, endTasks>>
    /\ UNCHANGED <<activeMeetings, calls, sumCalls, emitted, now, nchunks,
                   stopped, lim,
                   sent, endRequests>>

-----------------------------------------------------------------------------
(* cleanup, called by stop(): endMeeting for every key of activeMeetings,  *)
(* each run up to its first await                                          *)

RECURSIVE CleanupCalls(_, _)
CleanupCalls(map, ids) ==
    IF ids = <<>> THEN <<>>
    ELSE EndMeetingCalls(map, Head(ids), "cleanup") \o CleanupCalls(map, Tail(ids))

cleanup ==
    /\ ~stopped
    /\ stopped' = TRUE
    /\ endTasks' = endTasks \o CleanupCalls(activeMeetings, MapKeys(activeMeetings))
    /\ timers' = timers \ UNION { EndMeetingClears(activeMeetings, MapKeys(activeMeetings)[i]) :
                                    i \in 1..Len(MapKeys(activeMeetings)) }
    /\ UNCHANGED <<activeMeetings, clientMeetings, heap, calls, sumCalls,
                   emitted, now, conn, nchunks, lim,
                   sent, endRequests>>

-----------------------------------------------------------------------------
(* The 'message' handler of a connection (index.ts) on messages other than *)
(* a well-formed meeting_start or audio_chunk                              *)

\* not_json: JSON.parse throws; start_no_payload: a meeting_start without
\* payload, startMeeting throws reading meetingInfo.id; start_no_id: a
\* meeting_start whose payload has participants but no id
Malformed == {"not_json", "start_no_payload", "start_no_id"}

Throws(kind) == kind \in {"not_json", "start_no_payload"}

\* the payload of a meeting_start without id; as a Map key and value
\* undefined reads back as undefined, which is what NoMeeting stands for
NoIdInfo == [id |-> NoMeeting, participants |-> <<>>]

onMalformedMessage(clientId, kind) ==
    /\ conn[clientId] = "open"
    /\ IF Throws(kind)
       THEN /\ Len(sent[clientId]) < 1 + lim.errors
            /\ sent' = sendError(sent, clientId, "INVALID_MESSAGE")
            /\ UNCHANGED <<activeMeetings, clientMeetings, heap, timers, calls,
                           sumCalls, endTasks, emitted, now, conn, nchunks,
                           stopped, lim, endRequests>>
       ELSE startMeeting(NoIdInfo.id, NoIdInfo.participants, clientId)

\* a message of a type handleWebSocketMessage has no case for, meeting_end
\* among them: the default branch logs it
handleUnknownMessage(clientId, meetingId) ==
    /\ conn[clientId] = "open"
    /\ meetingId \notin endRequests
    /\ endRequests' = endRequests \cup {meetingId}
    /\ UNCHANGED <<activeMeetings, clientMeetings, heap, timers, calls, sumCalls,
                   endTasks, emitted, now, conn, nchunks, stopped, lim, sent>>

-----------------------------------------------------------------------------
(* The WebSocketServer of index.ts.  An event is emitted to its listeners  *)
(* one after the other, each running up to its first await, before any     *)
(* other callback runs: wss.pending holds the listeners still to run       *)

\* start(): after the services initialized, setupWebSocket() and listen()
start ==
    /\ ~wss.listening
    /\ wss' = [setupWebSocket(wss) EXCEPT !.listening = TRUE]
    /\ UNCHANGED <<activeMeetings, clientMeetings, heap, timers, calls, sumCalls,
                   endTasks, emitted, now, conn, nchunks, stopped, lim, sent,
                   endRequests, videoSaves, ext>>

\* the client ids no listener has been given yet
Unassigned == SelectSeq(ClientIds, LAMBDA c : conn[c] = "unassigned")

\* the 'connection' event of socket w: every listener takes a uuid, registers
\* its 'message' and 'close' handlers and sends the connection confirmation
onConnection(w) ==
    /\ wss.listening
    /\ wss.pending = <<>>
    /\ wss.state[w] = "new"
    /\ Len(Unassigned) >= wss.listeners
    /\ LET ids == SubSeq(Unassigned, 1, wss.listeners) IN
        /\ wss' = [wss EXCEPT !.ids[w] = ids, !.state[w] = "open"]
        /\ conn' = [c \in DOMAIN conn |->
                        IF \E i \in 1..Len(ids) : ids[i] = c THEN "open" ELSE conn[c]]
        /\ sent' = [c \in DOMAIN sent |->
                        IF \E i \in 1..Len(ids) : ids[i] = c
                        THEN Append(sent[c], ConnectionConfirmation) ELSE sent[c]]
    /\ UNCHANGED <<activeMeetings, clientMeetings, heap, timers, calls, sumCalls,
                   endTasks, emitted, now, nchunks, stopped, lim,
                   endRequests, videoSaves, ext>>

\* one invocation per handler registered on socket w
Handlers(w, message) ==
    [i \in 1..Len(wss.ids[w]) |-> [clientId |-> wss.ids[w][i], message |-> message]]

\* socket w emits 'message' or 'close'
emit(w, message) ==
    /\ wss.state[w] = "open"
    /\ wss.pending = <<>>
    /\ message.type = "meeting_start" => Len(heap) + Len(wss.ids[w]) <= lim.objs
    /\ message.type = "audio_chunk" => nchunks + Len(wss.ids[w]) <= lim.chunks
    /\ wss' = [wss EXCEPT !.pending = Handlers(w, message),
                          !.received[message.type] = @ + 1,
                          !.state[w] = IF message.type = "close" THEN "closed" ELSE @]
    /\ UNCHANGED <<activeMeetings, clientMeetings, heap, timers, calls, sumCalls,
                   endTasks, emitted, now, conn, nchunks, stopped, lim, sent,
                   endRequests, videoSaves, ext>>

\* the next listener of the event being emitted runs
runHandler ==
    /\ wss.pending # <<>>
    /\ LET clientId == Head(wss.pending).clientId
           message == Head(wss.pending).message
       IN CASE message.type = "meeting_start" ->
                   startMeeting(message.payload.id, message.payload.participants, clientId)
            [] message.type = "audio_chunk" ->
                   processAudioChunk(message.meetingId, message.payload.data,
                                     message.payload.timestamp)
            [] message.type = "close" -> handleClientDisconnect(clientId)
    /\ wss' = [wss EXCEPT !.pending = Tail(@)]
    /\ UNCHANGED <<videoSaves, ext>>

-----------------------------------------------------------------------------
(* The extension's BackgroundService (extension/src/background.ts): the    *)
(* connection to the backend and the forwarding of its messages to the     *)
(* Meet tabs                                                               *)

\* connectToBackend: new WebSocket(...) threw, or the socket is connecting
scheduleReconnectAlways(e) ==
    [e EXCEPT !.reconnectTimers =
                  Append(@, [delay |-> reconnectDelay * 2^e.reconnectAttempts])]

scheduleReconnect(e) ==
    IF e.reconnectAttempts < maxReconnectAttempts
    THEN [e EXCEPT !.reconnectTimers =
                       Append(@, [delay |-> reconnectDelay * 2^e.reconnectAttempts])]
    ELSE e

connectToBackend(e, threw) ==
    IF threw
    THEN scheduleReconnect(e)
    ELSE [e EXCEPT !.ws = "connecting"]

\* ws.onopen
onopen ==
    /\ ext.ws = "connecting"
    /\ ext' = [ext EXCEPT !.ws = "open", !.reconnectAttempts = 0, !.sinceOpen = 0]

\* ws.onclose, of a socket that was open or that failed to connect
onclose ==
    /\ ext.ws \in {"connecting", "open"}
    /\ ext' = scheduleReconnect([ext EXCEPT !.ws = "closed"])

\* the callback scheduleReconnect passed to setTimeout
reconnectTimerFires(threw) ==
    /\ ext.reconnectTimers # <<>>
    /\ ext' = connectToBackend(
                  [ext EXCEPT !.reconnectTimers = Tail(@),
                              !.reconnectAttempts = @ + 1,
                              !.sinceOpen = @ + 1],
                  threw)

\* chrome.tabs.query was called by sendMessageToTabs(message, retryCount)
Query(message, retryCount) ==
    [kind |-> "query", message |-> message, retryCount |-> retryCount, tab |-> 0]

\* chrome.tabs.sendMessage(tab, message) rejected
Rejection(message, retryCount, tab) ==
    [kind |-> "rejection", message |-> message, retryCount |-> retryCount, tab |-> tab]

\* the setTimeout of a retry
RetryTimer(message, retryCount) ==
    [kind |-> "timer", message |-> message, retryCount |-> retryCount, tab |-> 0]

sendMessageToTabs(e, message, retryCount) ==
    [e EXCEPT !.pending = @ (+) SetToBag({Query(message, retryCount)})]

\* ws.onmessage: handleBackendMessage calls sendMessageToTabs(message)
onmessage ==
    /\ ext.ws = "open"
    /\ ext.arrived < ext.toArrive
    /\ ext' = sendMessageToTabs([ext EXCEPT !.arrived = @ + 1], ext.arrived + 1, 0)

\* the callback of chrome.tabs.query: sendMessage to every tab it returned
queryCallback(item) ==
    /\ item.kind = "query"
    /\ BagIn(item, ext.pending)
    /\ LET m == item.message
           failing == ext.tabs \ ext.receivers
           rejections == [r \in {Rejection(m, item.retryCount, t) : t \in failing} |-> 1]
       IN ext' = [ext EXCEPT
                    !.pending = (@ (-) SetToBag({item})) (+) rejections,
                    !.attempts[m] = [t \in ext.tabs |-> @[t] + 1],
                    !.delivered[m] = [t \in ext.tabs |->
                                         IF t \in ext.receivers THEN @[t] + 1 ELSE @[t]]]

\* the catch of a rejected sendMessage
ShouldRetry(retryCount) == retryCount < MaxRetries

sendRejected(item) ==
    /\ item.kind = "rejection"
    /\ BagIn(item, ext.pending)
    /\ ext' = [ext EXCEPT
                 !.pending = IF ShouldRetry(item.retryCount)
                             THEN (@ (-) SetToBag({item}))
                                  (+) SetToBag({RetryTimer(item.message, item.retryCount)})
                             ELSE @ (-) SetToBag({item})]

\* the callback of a retry's setTimeout
retryTimerFires(item) ==
    /\ item.kind = "timer"
    /\ BagIn(item, ext.pending)
    /\ ext' = sendMessageToTabs([ext EXCEPT !.pending = @ (-) SetToBag({item})],
                                item.message, item.retryCount + 1)

-----------------------------------------------------------------------------
(* Properties *)

Objs == 1..Len(heap)

Registered(o) ==
    MapHas(activeMeetings, heap[o].id) /\ MapValue(activeMeetings, heap[o].id) = o

Seqs(buffers) == {buffers[i].seq : i \in 1..Len(buffers)}

Range(f) == {f[i] : i \in 1..Len(f)}

\* C1: under every interleaving of the disconnects of a session's clients the
\* session is torn down once: no session is handed to saveMeeting by two
\* endMeeting invocations that disconnects triggered, and none is removed twice
C1_OneTeardownPerSession ==
    \A k1, k2 \in 1..Len(endTasks) :
        ( /\ endTasks[k1].obj = endTasks[k2].obj
          /\ endTasks[k1].trigger = "disconnect"
          /\ endTasks[k2].trigger = "disconnect" ) => k1 = k2

\* C2: a trigger that arrives while an endMeeting of the same session is
\* suspended at saveMeeting or sendMeetingMinutes is a no-op: the step starts
\* no further endMeeting invocation (so no second saveMeeting call) for it
C2_SecondTriggerNoOp ==
    [][ \A k \in (Len(endTasks) + 1)..Len(endTasks') :
          ~ \E j \in 1..Len(endTasks) :
                /\ endTasks[j].obj = endTasks'[k].obj
                /\ endTasks[j].pc \in {"save", "email"} ]_vars

\* C3: startMeeting for a registered id leaves the existing session in place:
\* while an id stays registered it names the same session, and that session's
\* interval stays set
C3_DuplicateStartKeepsSession ==
    [][ \A m \in Meetings :
          (MapHas(activeMeetings, m) /\ MapHas(activeMeetings', m) /\
           Len(heap') > Len(heap))
            => /\ MapValue(activeMeetings', m) = MapValue(activeMeetings, m)
               /\ heap'[MapValue(activeMeetings, m)] = heap[MapValue(activeMeetings, m)] ]_vars

\* C4: a rejected saveMeeting does not block teardown: an endMeeting invocation
\* that has ended, in whichever way, has removed its session from the registry
C4_FailureDoesNotBlockTeardown ==
    \A k \in 1..Len(endTasks) :
        endTasks[k].pc \in {"done", "failed"} => ~Registered(endTasks[k].obj)

\* C5: the result of a transcribe or generateSummary call that was outstanding
\* when teardown of its session began is discarded: the step that completes
\* it changes no field of the session and emits nothing
C5_StaleResultDiscarded ==
    [][ /\ \A c \in 1..Len(calls) :
             ( /\ calls[c].status = "inflight" /\ calls'[c].status # "inflight"
               /\ calls[c].early /\ TeardownBegun(calls[c].obj) )
               => /\ heap'[calls[c].obj] = heap[calls[c].obj]
                  /\ emitted' = emitted
        /\ \A j \in 1..Len(sumCalls) :
             ( /\ sumCalls[j].status = "inflight" /\ sumCalls'[j].status # "inflight"
               /\ sumCalls[j].early /\ TeardownBegun(sumCalls[j].obj) )
               => /\ heap'[sumCalls[j].obj] = heap[sumCalls[j].obj]
                  /\ emitted' = emitted ]_vars

\* C6: every audio fragment is in the merged audio of at most one transcribe call
C6_FragmentTranscribedOnce ==
    \A c1, c2 \in 1..Len(calls) :
        c1 # c2 => Range(calls[c1].window) \cap Range(calls[c2].window) = {}

\* C7: after the transcribe call of a window failed, none of the window's
\* fragments is pending any more
C7_FailedWindowDiscarded ==
    \A c \in 1..Len(calls) :
        calls[c].status = "failed"
          => Range(calls[c].window) \cap Seqs(heap[calls[c].obj].audioBuffers) = {}

\* C8: a fragment leaves the pending fragments only with the flush whose
\* buffer holds it: the fragments a step removes are fragments of the window
\* of the transcribe call that completes in that step
C8_FlushTakesItsOwnFragments ==
    [][ \A o \in Objs :
          \A s \in Seqs(heap[o].audioBuffers) \ Seqs(heap'[o].audioBuffers) :
              \E c \in 1..Len(calls) :
                  /\ calls[c].status = "inflight" /\ calls'[c].status # "inflight"
                  /\ s \in Range(calls[c].window) ]_vars

RECURSIVE SumTimestamps(_)
SumTimestamps(buffers) ==
    IF buffers = <<>> THEN 0
    ELSE Head(buffers).timestamp + SumTimestamps(Tail(buffers))

RECURSIVE ConcatData(_)
ConcatData(buffers) ==
    IF buffers = <<>> THEN <<>>
    ELSE Head(buffers).data \o ConcatData(Tail(buffers))

Appended(o) ==
    /\ Len(heap'[o].audioBuffers) = Len(heap[o].audioBuffers) + 1
    /\ SubSeq(heap'[o].audioBuffers, 1, Len(heap[o].audioBuffers)) = heap[o].audioBuffers

C10_TranscriptInFlushOrder ==
    \A o \in Objs :
        \A i, j \in 1..Len(heap[o].transcript) :
            i < j => heap[o].transcript[i].id[1] <= heap[o].transcript[j].id[1]

-----------------------------------------------------------------------------
(* The summary pipeline *)

SumCallsOf(o) == {j \in 1..Len(sumCalls) : sumCalls[j].obj = o}

SummaryEventsOf(em, o) ==
    {i \in 1..Len(em) : em[i].type = "summary" /\ em[i].payload.id \in SumCallsOf(o)}

\* C11: the watermark and the summaries of a session change only in the step in
\* which one of its summarizer calls succeeds, the watermark to that call's tick
\* time; while none of the session's calls has succeeded, however many have
\* failed, the watermark is the initial one, summaries is empty and no summary
\* event of the session has been broadcast
C11_WatermarkMovesOnlyOnSuccess ==
    [][\A o \in Objs :
          LET succeeding == {j \in SumCallsOf(o) : /\ sumCalls[j].status = "inflight"
                                                   /\ sumCalls'[j].status = "ok"}
              succeeded == {j \in 1..Len(sumCalls') : /\ sumCalls'[j].obj = o
                                                      /\ sumCalls'[j].status = "ok"}
          IN /\ ( \/ heap'[o].lastSummaryTime # heap[o].lastSummaryTime
                  \/ heap'[o].summaries # heap[o].summaries
                  \/ SummaryEventsOf(emitted', o) # SummaryEventsOf(emitted, o) )
                => \E j \in succeeding :
                      /\ heap'[o].lastSummaryTime = sumCalls[j].endTime
                      /\ Len(heap'[o].summaries) = Len(heap[o].summaries) + 1
             /\ succeeded = {}
                => /\ heap'[o].lastSummaryTime = InitialSummaryTime
                   /\ heap'[o].summaries = <<>>
                   /\ SummaryEventsOf(emitted', o) = {}
      ]_vars

\* two summarizer calls of a session failed and none succeeded
C11_Witness ==
    \E o \in Objs :
        /\ Cardinality({j \in SumCallsOf(o) : sumCalls[j].status = "failed"}) >= 2
        /\ \A j \in SumCallsOf(o) : sumCalls[j].status = "failed"
        /\ heap[o].lastSummaryTime = InitialSummaryTime
        /\ heap[o].summaries = <<>>

\* C12: when every summarizer call a session made so far has failed, the
\* window of its next tick contains every segment of the failed calls' windows
\* and every segment appended since, that is the whole transcript; and when a
\* call made after a failed one is the first of the session to succeed,
\* summaries has length 1 and the watermark is that call's tick time
C12_RetryAfterFailure ==
    [][\A o \in Objs :
          LET made == SumCallsOf(o)
              n == Len(sumCalls')
          IN /\ ( /\ made # {}
                  /\ \A j \in made : sumCalls[j].status = "failed"
                  /\ n = Len(sumCalls) + 1
                  /\ sumCalls'[n].obj = o )
                => /\ \A j \in made : Range(sumCalls[j].chunks) \subseteq Range(sumCalls'[n].chunks)
                   /\ Range(heap[o].transcript) \subseteq Range(sumCalls'[n].chunks)
             /\ \A j2 \in made :
                   ( /\ sumCalls[j2].status = "inflight"
                     /\ sumCalls'[j2].status = "ok"
                     /\ \E j1 \in made : j1 < j2 /\ sumCalls[j1].status = "failed"
                     /\ \A j \in made : sumCalls[j].status # "ok" )
                   => /\ Len(heap'[o].summaries) = 1
                      /\ heap'[o].lastSummaryTime = sumCalls[j2].endTime
      ]_vars

\* a call failed, the next one took a larger window and succeeded
C12_Witness ==
    \E o \in Objs : \E j1, j2 \in SumCallsOf(o) :
        /\ j1 < j2
        /\ sumCalls[j1].status = "failed"
        /\ sumCalls[j2].status = "ok"
        /\ sumCalls[j2].startTime = InitialSummaryTime
        /\ Range(sumCalls[j1].chunks) \subseteq Range(sumCalls[j2].chunks)
        /\ Range(sumCalls[j1].chunks) # Range(sumCalls[j2].chunks)
        /\ Len(heap[o].summaries) = 1
        /\ heap[o].lastSummaryTime = sumCalls[j2].endTime

\* C13: the watermark of a session never decreases, also when summarizer
\* calls overlap and complete out of order
C13_WatermarkMonotonic ==
    [][\A o \in Objs : heap'[o].lastSummaryTime >= heap[o].lastSummaryTime]_vars

\* C14: while the transcript of a session is not empty, its watermark is at
\* most the end time of the latest transcript segment
C14_WatermarkWithinTranscript ==
    \A o \in Objs :
        heap[o].transcript # <<>>
        => \E i \in 1..Len(heap[o].transcript) :
              heap[o].lastSummaryTime <= heap[o].transcript[i].endTime

\* C15: every segment that later ticks exclude, its start being before the
\* watermark, was in the window of a summarizer call that succeeded
C15_ExcludedWasSummarised ==
    \A o \in Objs :
        \A i \in 1..Len(heap[o].transcript) :
            heap[o].transcript[i].startTime < heap[o].lastSummaryTime
            => \E j \in SumCallsOf(o) :
                  /\ sumCalls[j].status = "ok"
                  /\ heap[o].transcript[i] \in Range(sumCalls[j].chunks)

\* C16: a tick on a session whose window is empty, no transcript segment
\* starting at or after the watermark, skips silently: no summarizer call is
\* made for the session, nothing is broadcast, and summaries and the
\* watermark stay as they are (only an interval callback reads the clock)
C16_EmptyWindowSkipped ==
    [][now' # now
       => \A o \in Objs :
             ( /\ Registered(o)
               /\ \A i \in 1..Len(heap[o].transcript) :
                     heap[o].transcript[i].startTime < heap[o].lastSummaryTime )
             => /\ \A j \in 1..Len(sumCalls') : j > Len(sumCalls) => sumCalls'[j].obj # o
                /\ heap'[o].summaries = heap[o].summaries
                /\ heap'[o].lastSummaryTime = heap[o].lastSummaryTime
                /\ emitted' = emitted
      ]_vars

\* the one interval of the one session fired after the watermark had passed
\* every segment of a non-empty transcript, and no call was made at that tick
C16_Witness ==
    \E o \in Objs :
        /\ Len(heap) = 1
        /\ Registered(o)
        /\ o \in timers
        /\ heap[o].transcript # <<>>
        /\ \A i \in 1..Len(heap[o].transcript) :
              heap[o].transcript[i].startTime < heap[o].lastSummaryTime
        /\ now > heap[o].lastSummaryTime
        /\ \A j \in SumCallsOf(o) : sumCalls[j].endTime < now

\* C17: summaries is in tick order: a summary built from an earlier tick's
\* window precedes every summary built from a later tick's window
C17_SummariesInTickOrder ==
    \A o \in Objs :
        \A i, k \in 1..Len(heap[o].summaries) :
            i < k => sumCalls[heap[o].summaries[i].id].endTime
                        < sumCalls[heap[o].summaries[k].id].endTime

\* C18: once endMeeting has started for a session no tick starts a summarizer
\* call for it, neither while it drains nor once it is archived
C18_NoCallAfterTeardownBegan ==
    [][\A j \in 1..Len(sumCalls') :
          j > Len(sumCalls) => ~TeardownBegun(sumCalls'[j].obj)]_vars

Archived(o) == \E k \in 1..Len(endTasks) : endTasks[k].obj = o /\ endTasks[k].pc = "done"

\* C19: a session is the one registered under its id iff it is Active or
\* Draining, that is from its startMeeting until its teardown has finished;
\* and while its id is not registered no client binding maps to the id
C19_RegisteredIffLive ==
    \A o \in Objs :
        /\ Registered(o) <=> ~Archived(o)
        /\ ~MapHas(activeMeetings, heap[o].id)
           => \A c \in lim.clients : clientMeetings[c] # heap[o].id

\* C20: a disconnect starts the teardown of a session only when it was the
\* last attached client's: after a disconnect that triggered endMeeting no
\* connected client is still bound to the session's id
C20_TeardownOnlyOnLastDisconnect ==
    [][\A k \in 1..Len(endTasks') :
          (k > Len(endTasks) /\ endTasks'[k].trigger = "disconnect")
          => \A c \in lim.clients :
                ~(conn'[c] = "open" /\ clientMeetings'[c] = endTasks'[k].meetingId)
      ]_vars

-----------------------------------------------------------------------------
(* Clients and sessions *)

\* C21: a client id is in the clients set of at most one registered session,
\* the one whose id clientMeetings gives for the client
C21_ClientInOneSession ==
    \A c \in lim.clients : \A o \in Objs :
        (Registered(o) /\ c \in heap[o].clients) => clientMeetings[c] = heap[o].id

\* C22: every session that is registered and whose teardown has not begun
\* has a connected client in its clients set
C22_ActiveHasConnectedClient ==
    \A o \in Objs :
        (Registered(o) /\ ~TeardownBegun(o))
        => \E c \in heap[o].clients : conn[c] = "open"

-----------------------------------------------------------------------------
(* The final aggregate *)

\* C23: from the moment endMeeting has built the minutes until both
\* collaborators are done with them, no step changes the transcript or the
\* summaries the minutes show, so saveMeeting and sendMeetingMinutes see the
\* contents endMeeting assembled
C23_MinutesAreASnapshot ==
    [][\A k \in 1..Len(endTasks) :
          endTasks[k].pc \in {"save", "email"}
          => Minutes(heap'[endTasks[k].obj]) = Minutes(heap[endTasks[k].obj])]_vars

-----------------------------------------------------------------------------
(* The client protocol *)

\* C24: an event sendToMeetingClients emits for a registered session is
\* written to the connection of every connected client in the session's
\* clients set
C24_BroadcastReachesClients ==
    [][\A i \in 1..Len(emitted') :
          i > Len(emitted)
          => \A o \in 1..Len(heap') :
                ( /\ heap'[o].id = emitted'[i].meetingId
                  /\ MapHas(activeMeetings', heap'[o].id)
                  /\ MapValue(activeMeetings', heap'[o].id) = o )
                => \A c \in heap'[o].clients :
                      conn[c] = "open"
                      => \E n \in 1..Len(sent'[c]) :
                            /\ n > Len(sent[c])
                            /\ sent'[c][n].type = emitted'[i].type
      ]_vars

\* C25: handling a malformed message writes one error event to the
\* connection it came from and to no other, leaves the connection open and
\* changes neither the registry, the bindings nor any session
C25_MalformedOnlyAnswered ==
    [][\A c \in lim.clients, kind \in Malformed :
          onMalformedMessage(c, kind)
          => /\ sent' = [sent EXCEPT ![c] = Append(@, ErrorMessage("INVALID_MESSAGE"))]
             /\ conn' = conn
             /\ UNCHANGED <<activeMeetings, clientMeetings, heap, timers, calls,
                            sumCalls, endTasks>>
      ]_vars

\* C26: a meeting_end message for a registered session makes the server
\* begin the teardown of that session
C26_EndRequestBeginsTeardown ==
    [][\A m \in lim.meetings :
          (m \notin endRequests /\ m \in endRequests' /\ MapHas(activeMeetings, m))
          => \E k \in 1..Len(endTasks') :
                endTasks'[k].obj = MapValue(activeMeetings, m)
      ]_vars

-----------------------------------------------------------------------------
(* Isolation of sessions *)

\* a step leaves every registered session with another id than meetingId as
\* it is: its fields, its interval, its registration and its client bindings
Isolated(meetingId) ==
    \A o \in Objs :
        (Registered(o) /\ heap[o].id # meetingId)
        => /\ heap'[o] = heap[o]
           /\ (o \in timers') <=> (o \in timers)
           /\ MapHas(activeMeetings', heap[o].id)
           /\ MapValue(activeMeetings', heap[o].id) = o
           /\ \A c \in lim.clients :
                 (clientMeetings'[c] = heap[o].id) <=> (clientMeetings[c] = heap[o].id)

C28_UnboundDisconnectNoOp ==
    [][\A c \in lim.clients :
          (conn[c] = "open" /\ conn'[c] = "closed" /\ clientMeetings[c] = NoMeeting)
          => UNCHANGED <<heap, activeMeetings, clientMeetings, timers, endTasks,
                         calls, sumCalls, emitted>>
      ]_vars

\* a client that never started a session disconnected while another
\* client's session is registered with its interval armed and no endMeeting
\* has been called
C28_Witness ==
    \E c \in lim.clients : \E o \in Objs :
        /\ conn[c] = "closed"
        /\ clientMeetings[c] = NoMeeting
        /\ \A p \in Objs : c \notin heap[p].clients
        /\ Registered(o)
        /\ o \in timers
        /\ endTasks = <<>>

\* C29: an endMeeting that has ended handed the minutes to
\* email.sendMeetingMinutes if and only if a participant has an email: no
\* endMeeting of a session with such a participant ends without that call
C29_NotifiedIffEmail ==
    \A k \in 1..Len(endTasks) :
        /\ endTasks[k].pc = "failed"
           => ~SomeEmail(heap[endTasks[k].obj].participants)
        /\ endTasks[k].pc = "email"
           => SomeEmail(heap[endTasks[k].obj].participants)

\* C30: no summary call carries transcript chunks to an endpoint outside the
\* server process, whatever SUMMARY_PROVIDER is
C30_NoCloudCalls ==
    \A j \in 1..Len(sumCalls) :
        Len(sumCalls[j].chunks) > 0 => sumCalls[j].endpoint = LocalModel

\* C31: sendMeetingMinutes calls transporter.sendMail only when the email
\* service initialized and a participant has an email, and an endMeeting
\* whose sendMail settled, delivered or rejected, went on to its cleanup
C31_EmailOptional ==
    \A k \in 1..Len(endTasks) :
        /\ endTasks[k].mail # "none"
           => /\ isInitialized(lim.smtp)
              /\ SomeEmail(heap[endTasks[k].obj].participants)
        /\ endTasks[k].mail \in {"sent", "failed"} => endTasks[k].pc = "done"

\* the email service did not initialize, a session with an email address in
\* its roster was created and its endMeeting ended without a mail
C31_Witness ==
    \E k \in 1..Len(endTasks) :
        /\ ~isInitialized(lim.smtp)
        /\ SomeEmail(heap[endTasks[k].obj].participants)
        /\ endTasks[k].pc = "done"
        /\ endTasks[k].mail = "none"

\* sendMail rejected and the endMeeting ended with its cleanup
C31_WitnessSendFailed ==
    \E k \in 1..Len(endTasks) :
        endTasks[k].mail = "failed" /\ endTasks[k].pc = "done"

\* C33: an endMeeting that reaches its cleanup leaves every session object
\* other than its own registered, and leaves the bindings of that object's
\* clients in clientMeetings
C33_TeardownSparesNewSession ==
    [][\A k \in 1..Len(endTasks) :
          (endTasks[k].pc # "done" /\ endTasks'[k].pc = "done")
          => \A o \in Objs :
                (o # endTasks[k].obj /\ Registered(o))
                => /\ Registered(o)'
                   /\ \A c \in heap[o].clients :
                          clientMeetings[c] = heap[o].id
                          => clientMeetings'[c] = clientMeetings[c]
      ]_vars

\* C34: the intervals still set for a registered meeting id are at most the
\* one whose handle is stored on the registered session object
C34_OneIntervalPerSession ==
    \A o \in Objs :
        Registered(o)
        => {h \in timers : heap[h].id = heap[o].id} \subseteq {heap[o].summaryInterval}

\* C35: processAudioChunk and processVideoChunk for a meeting id that is not
\* registered change no session, call neither transcribe nor saveVideoChunk
\* and emit nothing
C35_UnregisteredChunkNoOp ==
    [][\A m \in lim.meetings, k \in lim.payloads :
          ( /\ ~MapHas(activeMeetings, m)
            /\ \/ processAudioChunk(m, k.data, k.timestamp)
               \/ processVideoChunk(m, k.data, k.timestamp) )
          => UNCHANGED <<heap, activeMeetings, clientMeetings, timers, calls, sumCalls,
                         videoSaves, endTasks, emitted, sent>>
      ]_vars

\* every chunk of the run, audio or video, arrived before the session was
\* started or after it was archived
C35_Witness ==
    /\ nchunks = lim.chunks
    /\ Len(heap) = 1
    /\ Archived(1)
    /\ heap[1].audioBuffers = <<>>
    /\ heap[1].videoChunks = <<>>
    /\ calls = <<>>
    /\ videoSaves = <<>>

\* the endMeeting invocations cleanup() made
CleanupTasks == {k \in 1..Len(endTasks) : endTasks[k].trigger = "cleanup"}

\* the Promise.all of cleanup() has settled: every endMeeting it called
\* fulfilled, or one of them rejected
CleanupSettled ==
    /\ stopped
    /\ \/ \A k \in CleanupTasks : endTasks[k].pc = "done"
       \/ \E k \in CleanupTasks : endTasks[k].pc = "failed"

\* C36: once the promise of cleanup() has settled, every session that was
\* registered when it was called has gone through its endMeeting to the end
\* and is no longer registered
C36_CleanupEndsAll ==
    CleanupSettled
    => \A k \in CleanupTasks :
          endTasks[k].pc = "done" /\ ~Registered(endTasks[k].obj)

\* C37: a failed OpenAI request does not fail the generateSummary call: the
\* call stays outstanding with the same chunks and times, it does not reject
\* afterwards, and when it resolves the session gets the local generator's
\* summary of those chunks and times and its lastSummaryTime advances
C37_OpenAIFailureFallsBack ==
    [][\A j \in 1..Len(sumCalls) :
          /\ sumCalls[j].endpoint = OpenAIBaseURL => sumCalls'[j].status # "failed"
          /\ (sumCalls[j].generator = "openai" /\ sumCalls'[j].generator # "openai")
             => /\ sumCalls'[j] = [sumCalls[j] EXCEPT !.generator = "local"]
                /\ UNCHANGED <<heap, emitted>>
          /\ (FellBack(sumCalls[j]) /\ sumCalls'[j] # sumCalls[j])
             => LET o == sumCalls[j].obj
                    summary == Summary(j, "local", sumCalls[j].chunks,
                                       sumCalls[j].startTime, sumCalls[j].endTime)
                IN /\ sumCalls'[j].status = "ok"
                   /\ heap'[o].summaries = Append(heap[o].summaries, summary)
                   /\ heap'[o].lastSummaryTime = sumCalls[j].endTime
      ]_vars

\* a call whose OpenAI request failed resolved with the local summary
C37_Witness ==
    \E j \in 1..Len(sumCalls) :
        /\ FellBack(sumCalls[j])
        /\ sumCalls[j].status = "ok"
        /\ \E i \in 1..Len(heap[sumCalls[j].obj].summaries) :
               /\ heap[sumCalls[j].obj].summaries[i].id = j
               /\ heap[sumCalls[j].obj].summaries[i].generator = "local"

\* C32: a connection is given one client id, and once the handlers of an
\* event have run there is one session per meeting_start received, one
\* processAudioChunk per audio_chunk received and one handleClientDisconnect
\* per close
C32_ConnectionHandledOnce ==
    /\ \A w \in Sockets : wss.state[w] # "new" => Len(wss.ids[w]) = 1
    /\ wss.pending = <<>>
       => /\ Len(heap) = wss.received["meeting_start"]
          /\ nchunks = wss.received["audio_chunk"]
          /\ Cardinality({c \in DOMAIN conn : conn[c] = "closed"}) = wss.received["close"]

\* C38: since the last successful open at most maxReconnectAttempts
\* reconnects were attempted, at most one reconnect timer is pending, its
\* delay is 1000 * 2^k ms where k is the number of attempts already made,
\* and while the socket is open the attempt counter is 0
C38_ReconnectBounded ==
    /\ ext.sinceOpen <= maxReconnectAttempts
    /\ Len(ext.reconnectTimers) <= 1
    /\ \A i \in 1..Len(ext.reconnectTimers) :
           ext.reconnectTimers[i].delay = 1000 * 2^ext.sinceOpen
    /\ ext.ws = "open" => ext.reconnectAttempts = 0

\* the fifth reconnect in a row failed and no further timer was set
C38_Witness ==
    /\ ext.sinceOpen = maxReconnectAttempts
    /\ ext.ws = "closed"
    /\ ext.reconnectTimers = <<>>

\* the socket opened again after failed attempts, and then closed
C38_WitnessReset ==
    /\ ext.ws = "closed"
    /\ ext.arrived > 0
    /\ ext.sinceOpen = 0
    /\ Len(ext.reconnectTimers) = 1

\* C39: for one backend message, sendMessage is called at most 1 + 3 times
\* per tab, and a tab that received the message is not sent it again
C39_ForwardRetriesBounded ==
    \A m \in DOMAIN ext.attempts : \A t \in ext.tabs :
        /\ ext.attempts[m][t] <= 1 + MaxRetries
        /\ ext.delivered[m][t] <= 1

-----------------------------------------------------------------------------
(* The events of the server: inbound messages and closes of the WebSocket   *)
(* connections, settled collaborator calls, interval callbacks and stop()  *)

OnMeetingStart ==
    /\ \E info \in Infos, c \in lim.clients :
           info.id \in lim.meetings /\ startMeeting(info.id, info.participants, c)
    /\ UNCHANGED <<videoSaves, wss, ext>>

OnAudioChunk ==
    /\ \E m \in lim.meetings, k \in lim.payloads : processAudioChunk(m, k.data, k.timestamp)
    /\ UNCHANGED <<videoSaves, wss, ext>>

TranscribeResolves ==
    /\ \E c \in 1..Len(calls), s \in lim.segStarts : transcribeResolved(c, s, lim.segs)
    /\ UNCHANGED <<videoSaves, wss, ext>>

TranscribeRejects ==
    /\ \E c \in 1..Len(calls) : transcribeRejected(c)
    /\ UNCHANGED <<videoSaves, wss, ext>>

IntervalFires ==
    /\ \E h \in timers, t \in 1..lim.time : summaryTick(h, t)
    /\ UNCHANGED <<videoSaves, wss, ext>>

SummaryResolves ==
    /\ \E j \in 1..Len(sumCalls) : summaryResolved(j)
    /\ UNCHANGED <<videoSaves, wss, ext>>

SummaryRejects ==
    /\ \E j \in 1..Len(sumCalls) : summaryRejected(j)
    /\ UNCHANGED <<videoSaves, wss, ext>>

OnClose ==
    /\ \E c \in lim.clients : handleClientDisconnect(c)
    /\ UNCHANGED <<videoSaves, wss, ext>>

SaveResolves ==
    /\ \E k \in 1..Len(endTasks) : saveResolved(k)
    /\ UNCHANGED <<videoSaves, wss, ext>>

SaveRejects ==
    /\ \E k \in 1..Len(endTasks) : saveRejected(k)
    /\ UNCHANGED <<videoSaves, wss, ext>>

EmailSettles ==
    /\ \E k \in 1..Len(endTasks) : emailSettled(k)
    /\ UNCHANGED <<videoSaves, wss, ext>>

Cleanup == cleanup /\ UNCHANGED <<videoSaves, wss, ext>>

Next ==
    \/ OnMeetingStart
    \/ OnAudioChunk
    \/ TranscribeResolves
    \/ TranscribeRejects
    \/ IntervalFires
    \/ SummaryResolves
    \/ SummaryRejects
    \/ OnClose
    \/ SaveResolves
    \/ SaveRejects
    \/ EmailSettles
    \/ Cleanup

Spec == Init /\ [][Next]_vars

SpecAudio == InitAudio /\ [][Next]_vars

SpecSummary == InitSummary /\ [][Next]_vars

\* the server with clients that also send malformed messages and meeting_end
OnMalformedMessage ==
    /\ \E c \in lim.clients, kind \in Malformed : onMalformedMessage(c, kind)
    /\ UNCHANGED <<videoSaves, wss, ext>>

OnMeetingEnd ==
    /\ \E c \in lim.clients, m \in lim.meetings : handleUnknownMessage(c, m)
    /\ UNCHANGED <<videoSaves, wss, ext>>

NextProtocol ==
    \/ Next
    \/ OnMalformedMessage
    \/ OnMeetingEnd

SpecProtocol == InitProtocol /\ [][NextProtocol]_vars

\* the server with an email service that may have initialized and whose
\* sendMail may reject
EmailRejects ==
    /\ \E k \in 1..Len(endTasks) : emailRejected(k)
    /\ UNCHANGED <<videoSaves, wss, ext>>

NextEmail ==
    \/ OnMeetingStart
    \/ OnClose
    \/ SaveResolves
    \/ SaveRejects
    \/ EmailSettles
    \/ EmailRejects
    \/ Cleanup

SpecEmail == InitEmail /\ [][NextEmail]_vars

\* the server with clients that also send video_chunk messages
OnVideoChunk ==
    /\ \E m \in lim.meetings, k \in lim.payloads : processVideoChunk(m, k.data, k.timestamp)
    /\ UNCHANGED <<wss, ext>>

NextMedia ==
    \/ OnMeetingStart
    \/ OnAudioChunk
    \/ OnVideoChunk
    \/ TranscribeResolves
    \/ TranscribeRejects
    \/ OnClose
    \/ SaveResolves
    \/ SaveRejects
    \/ EmailSettles
    \/ Cleanup

SpecMedia == InitMedia /\ [][NextMedia]_vars

\* the extension's background service; the server is left as constructed
ServerIdle ==
    UNCHANGED <<activeMeetings, clientMeetings, heap, timers, calls, sumCalls,
                endTasks, emitted, now, conn, nchunks, stopped, lim, sent,
                endRequests, videoSaves, wss>>

OnOpen == onopen /\ ServerIdle

OnBackendClose == onclose /\ ServerIdle

ReconnectTimerFires == (\E threw \in BOOLEAN : reconnectTimerFires(threw)) /\ ServerIdle

OnBackendMessage == onmessage /\ ServerIdle

QueryCallback == (\E item \in BagToSet(ext.pending) : queryCallback(item)) /\ ServerIdle

SendRejected == (\E item \in BagToSet(ext.pending) : sendRejected(item)) /\ ServerIdle

RetryTimerFires == (\E item \in BagToSet(ext.pending) : retryTimerFires(item)) /\ ServerIdle

NextExtension ==
    \/ OnOpen
    \/ OnBackendClose
    \/ ReconnectTimerFires
    \/ OnBackendMessage
    \/ QueryCallback
    \/ SendRejected
    \/ RetryTimerFires

SpecReconnect == InitReconnect /\ [][NextExtension]_vars

SpecForward == InitForward /\ [][NextExtension]_vars

\* the server with its WebSocketServer: start(), connections, and the
\* events of a socket dispatched to the handlers registered on it
OnConnection == \E w \in Sockets : onConnection(w)

OnSocketMessage ==
    \E w \in Sockets :
        \/ \E info \in Infos :
               /\ info.id \in lim.meetings
               /\ emit(w, [type |-> "meeting_start", payload |-> info])
        \/ \E m \in lim.meetings, k \in lim.payloads :
               emit(w, [type |-> "audio_chunk", meetingId |-> m, payload |-> k])

OnSocketClose == \E w \in Sockets : emit(w, [type |-> "close"])

\* no event is being emitted: the turn of a timer or of a settled promise
Completion ==
    /\ wss.pending = <<>>
    /\ \/ TranscribeResolves
       \/ TranscribeRejects
       \/ IntervalFires
       \/ SummaryResolves
       \/ SummaryRejects
       \/ SaveResolves
       \/ SaveRejects
       \/ EmailSettles

NextConnection ==
    \/ start
    \/ OnConnection
    \/ OnSocketMessage
    \/ OnSocketClose
    \/ runHandler
    \/ Completion

SpecConnection == InitConnection /\ [][NextConnection]_vars

\* the server with the openai provider, whose requests may fail
OpenAIFails ==
    /\ \E j \in 1..Len(sumCalls) : openaiFailed(j)
    /\ UNCHANGED <<videoSaves, wss, ext>>

NextOpenAI ==
    \/ OnMeetingStart
    \/ OnAudioChunk
    \/ TranscribeResolves
    \/ TranscribeRejects
    \/ IntervalFires
    \/ SummaryResolves
    \/ OpenAIFails
    \/ OnClose
    \/ SaveResolves
    \/ SaveRejects
    \/ EmailSettles
    \/ Cleanup

SpecOpenAI == InitOpenAI /\ [][NextOpenAI]_vars

====
